---------------------------- MODULE Spec2Model ----------------------------
(***************************************************************************)
(* A model of the onboarding hub client: the route dispatcher (main.js),   *)
(* the role-scoped page renderers (Partners, Partner Detail, Documents,    *)
(* Templates), the onboarding-stage accessor with its cache                *)
(* (constants/onboardingStages.js), the Settings page's stage editor       *)
(* (pages/Settings.js), the Partner Detail checklist and the Documents     *)
(* page's Create Folder form.  The backend (Firestore) is modelled as the  *)
(* collections it holds; every await on it is a step of its own.           *)
(***************************************************************************)
EXTENDS Integers, Sequences, FiniteSets, Bags, TLC

VARIABLES
    userRole,       \* main.js: role derived from the user document
    partnerId,      \* main.js: partner scope derived from the user document
    docsImpl,       \* which of the two renderDocumentsPage definitions is bound
    partners,       \* backend collection "partners"
    documents,      \* backend collection "documents"
    templates,      \* backend collection "templates"
    folders,        \* backend collection "folders": the bag of its documents' names
    location,       \* the path last handed to renderRoute
    invoked,        \* the renderer renderRoute called for it
    contentRoot,    \* what the page area shows
    reads,          \* backend reads in flight (a bag)
    settingsDoc,    \* backend document settings/onboardingStages
    cachedStages,   \* onboardingStages.js: cachedStages
    stagesPromise,  \* onboardingStages.js: stagesPromise
    loads,          \* loadOnboardingStages bodies in flight
    writes,         \* saveOnboardingStages calls in flight
    stages,         \* Settings.js: the editor's local list
    settingsRole,   \* the userRole argument of the rendered Settings page
    renders,        \* renderSettingsPage bodies in flight
    disabled,       \* the disabled buttons of the rendered Settings page
    timers,         \* pending setTimeout re-renders of the Settings page
    edits,          \* number of edits made in the stage editor (observation)
    lastOp,         \* the run of moves the editor is in (observation)
    saveMessage,    \* Settings.js: the type of the message showMessage shows
    authUser,       \* firebase auth: the signed-in user's uid, or NULL
    users,          \* backend collection "users": uid -> document
    callbacks,      \* onAuthStateChanged callbacks awaiting the user document
    root,           \* what the #root element holds
    url,            \* window.location.pathname
    lastCall,       \* the last call of the accessor and its outcome (observation)
    csStored,       \* backend: csGuideStatus of the partner shown on Partner Detail
    csGuideStatus,  \* renderPartnerDetailPage: its local csGuideStatus
    checked,        \* the checked state of the detail page's checklist boxes
    updates,        \* checklist updateDoc calls in flight, in the order issued
    lastUpdate,     \* the checklist update that settled last (observation)
    submits         \* Create Folder submissions in flight

vars == <<userRole, partnerId, docsImpl, partners, documents, templates,
          folders, location, invoked, contentRoot, reads, settingsDoc,
          cachedStages, stagesPromise, loads, writes, stages, settingsRole,
          renders, disabled, timers, edits, lastOp, saveMessage, authUser,
          users, callbacks, root, url, lastCall, csStored, csGuideStatus,
          checked, updates, lastUpdate, submits>>

routeVars == <<location, invoked, reads>>
backendVars == <<partners, documents, templates, folders>>
userVars == <<userRole, partnerId, docsImpl>>
stageVars == <<settingsDoc, cachedStages, stagesPromise, loads, writes,
               stages, settingsRole, renders, disabled, timers, edits, lastOp,
               saveMessage, lastCall>>
authVars == <<authUser, users, callbacks, root, url>>
checklistVars == <<csStored, csGuideStatus, checked, updates, lastUpdate>>

---------------------------------------------------------------------------
(* Values *)

NULL == "null"          \* null / undefined / a missing field
ANY == "any"            \* a query without that where-clause
DENIED == "denied"      \* no query is built

\* String.prototype.trim on the strings of the model.
trim(str) ==
    CASE str = " A" -> "A"
      [] str = " " -> ""
      [] OTHER -> str

Roles == {"admin", "transferz", "partner", "default"}

\* partnerId values of a user document: no scope, an ordinary partner id, and
\* an id that is spelled like a role name.
UserPartnerIds == {NULL, "p1", "transferz"}

\* partnerId values of rows.
RowPartnerIds == {"p1", "p2"}

PartnerDocIds == {"k1", "k2"}

Uids == {"u1", "u2"}

\* A document of the collection "users": its role and partnerId fields, NULL
\* for an absent field; NoUserDoc for a missing document.
UserDoc(role, pid) == [exists |-> TRUE, role |-> role, partnerId |-> pid]

NoUserDoc == [exists |-> FALSE, role |-> NULL, partnerId |-> NULL]

Row(id, pid, folder, fav) ==
    [id |-> id, partnerId |-> pid, folder |-> folder, isFavorite |-> fav]

---------------------------------------------------------------------------
(* Paths.  A path is the sequence of its segments: "/a/b" is <<"a","b">>,  *)
(* "/" is <<"">>, the empty path is <<>>, "/a/" is <<"a","">>.             *)

MaxPathLen == 3

Segments == {"", "home", "partners", "documents", "templates", "settings", "k1"}

Paths == UNION {[1..n -> Segments] : n \in 0..MaxPathLen}

\* The paths of the navigation links and of the partner rows.
LinkPaths == {<<"">>, <<"partners">>, <<"documents">>, <<"templates">>, <<"settings">>}
             \cup {<<"partners", k>> : k \in PartnerDocIds}

NormalizePathHome(pathname) ==
    IF pathname = <<>> \/ pathname = <<"">> THEN <<"partners">> ELSE pathname

normalizePath(pathname) ==
    IF pathname = <<>> \/ pathname = <<"">> \/ pathname = <<"home">>
    THEN <<"partners">>
    ELSE pathname

\* path.match(/^\/partners\/([^/]+)$/): the captured segment, or NULL.
partnerDetailMatch(path) ==
    IF Len(path) = 2 /\ path[1] = "partners" /\ path[2] # "" THEN path[2] ELSE NULL

---------------------------------------------------------------------------
(* The page area and the reads in flight *)

View(v) == [view |-> v, returned |-> {}, shown |-> {}, folder |-> NULL,
            role |-> NULL, pid |-> NULL]

Read(kind, role, pid, docId, folder, wp, wf, docs) ==
    [kind |-> kind, role |-> role, pid |-> pid, docId |-> docId, folder |-> folder,
     wherePartner |-> wp, whereFolder |-> wf, docs |-> docs]

MaxInflight == 2

Inflight == BagCardinality(reads)

Issue(r) == reads (+) SetToBag({r})

\* getDocs(query(col, where...)) on the backend.
Query(col, wp, wf) ==
    {row \in col : /\ (wp = ANY \/ row.partnerId = wp)
                   /\ (wf = ANY \/ row.folder = wf)}


---------------------------------------------------------------------------
(* Partners.js: renderPartnersPage *)

\* The where("partnerId", ...) clause of partnersQuery, ANY for none, DENIED
\* when no query is built.
partnersQuery(role, pid) ==
    IF role = "admin" \/ role = "transferz" THEN ANY
    ELSE IF role = "partner" /\ pid # NULL THEN pid
    ELSE DENIED

renderPartnersPage(role, pid) ==
    LET wp == partnersQuery(role, pid) IN
    IF wp = DENIED
    THEN /\ contentRoot' = View("accessDenied")
         /\ reads' = reads
    ELSE /\ contentRoot' = View("loading")
         /\ reads' = Issue(Read("partners", role, pid, NULL, NULL, wp, ANY, {}))

\* getDocs resolved: the list is rendered.
PartnersLoaded(r) ==
    /\ BagIn(r, reads) /\ r.kind = "partners"
    /\ reads' = reads (-) SetToBag({r})
    /\ LET rows == Query(partners, r.wherePartner, r.whereFolder) IN
       contentRoot' = [view |-> "partners", returned |-> rows, shown |-> rows,
                       folder |-> NULL, role |-> r.role, pid |-> r.pid]
    /\ UNCHANGED <<location, invoked, userVars, authVars, backendVars,
                   checklistVars, submits, stageVars>>

\* getDocs rejected: the catch block renders the error card.
PartnersFailed(r) ==
    /\ BagIn(r, reads) /\ r.kind = "partners"
    /\ reads' = reads (-) SetToBag({r})
    /\ contentRoot' = View("error")
    /\ UNCHANGED <<location, invoked, userVars, authVars, backendVars,
                   checklistVars, submits, stageVars>>

---------------------------------------------------------------------------
(* Partners.js: renderPartnerDetailPage *)

Item(label, completed) == [label |-> label, completed |-> completed]

defaultCsGuideStatus ==
    <<Item("Form sent", FALSE), Item("Form answered by partner", FALSE),
      Item("Awaiting PSM", FALSE), Item("Ready for draft", FALSE),
      Item("Created", FALSE)>>

\* Array.isArray(partner.csGuideStatus) && partner.csGuideStatus.length
\* ? partner.csGuideStatus : a copy of the defaults; <<>> stands for a missing
\* field as well.
initialCsGuideStatus(stored) ==
    IF Len(stored) > 0 THEN stored ELSE defaultCsGuideStatus

\* The checked attributes the template gives the boxes.
Boxes(status) == [k \in 1..Len(status) |-> status[k].completed]

renderPartnerDetailPage(partnerDocId, role) ==
    /\ contentRoot' = View("loading")
    /\ reads' = Issue(Read("detail", role, NULL, partnerDocId, NULL, ANY, ANY, {}))

PartnerDetailLoaded(r) ==
    /\ BagIn(r, reads) /\ r.kind = "detail"
    /\ reads' = reads (-) SetToBag({r})
    /\ LET found == {row \in partners : row.id = r.docId} IN
       IF found = {}
       THEN /\ contentRoot' = View("partnerNotFound")
            /\ UNCHANGED <<csGuideStatus, checked>>
       ELSE /\ contentRoot' = [view |-> "partnerDetail", returned |-> found,
                                 shown |-> found, folder |-> NULL,
                                 role |-> r.role, pid |-> NULL]
            /\ csGuideStatus' = initialCsGuideStatus(csStored)
            /\ checked' = Boxes(csGuideStatus')
    /\ UNCHANGED <<location, invoked, userVars, authVars, backendVars,
                   csStored, updates, lastUpdate, submits, stageVars>>

PartnerDetailFailed(r) ==
    /\ BagIn(r, reads) /\ r.kind = "detail"
    /\ reads' = reads (-) SetToBag({r})
    /\ contentRoot' = View("error")
    /\ UNCHANGED <<location, invoked, userVars, authVars, backendVars,
                   checklistVars, submits, stageVars>>

---------------------------------------------------------------------------
(* Templates.js: renderTemplatesPage *)

templatesQuery(role, pid) ==
    IF role = "admin" \/ role = "transferz" THEN ANY
    ELSE IF role = "partner" /\ pid # NULL THEN pid
    ELSE DENIED

renderTemplatesPage(role, pid) ==
    LET wp == templatesQuery(role, pid) IN
    IF wp = DENIED
    THEN /\ contentRoot' = View("accessDenied")
         /\ reads' = reads
    ELSE /\ contentRoot' = View("loading")
         /\ reads' = Issue(Read("templates", role, pid, NULL, NULL, wp, ANY, {}))

TemplatesLoaded(r) ==
    /\ BagIn(r, reads) /\ r.kind = "templates"
    /\ reads' = reads (-) SetToBag({r})
    /\ LET rows == Query(templates, r.wherePartner, r.whereFolder) IN
       contentRoot' = [view |-> "templates", returned |-> rows, shown |-> rows,
                       folder |-> NULL, role |-> r.role, pid |-> r.pid]
    /\ UNCHANGED <<location, invoked, userVars, authVars, backendVars,
                   checklistVars, submits, stageVars>>

TemplatesFailed(r) ==
    /\ BagIn(r, reads) /\ r.kind = "templates"
    /\ reads' = reads (-) SetToBag({r})
    /\ contentRoot' = View("error")
    /\ UNCHANGED <<location, invoked, userVars, authVars, backendVars,
                   checklistVars, submits, stageVars>>

---------------------------------------------------------------------------
(* Documents.js, first definition: renderDocumentsPage(contentRoot, db,     *)
(* userRole, partnerId), a flat list.                                      *)

documentsQuery(role, pid) ==
    IF role = "admin" \/ role = "transferz" THEN ANY
    ELSE IF role = "partner" /\ pid # NULL THEN pid
    ELSE DENIED

renderDocumentsList(role, pid) ==
    LET wp == documentsQuery(role, pid) IN
    IF wp = DENIED
    THEN /\ contentRoot' = View("accessDenied")
         /\ reads' = reads
    ELSE /\ contentRoot' = View("loading")
         /\ reads' = Issue(Read("documents", role, pid, NULL, NULL, wp, ANY, {}))

DocumentsListLoaded(r) ==
    /\ BagIn(r, reads) /\ r.kind = "documents"
    /\ reads' = reads (-) SetToBag({r})
    /\ LET rows == Query(documents, r.wherePartner, r.whereFolder) IN
       contentRoot' = [view |-> "documents", returned |-> rows, shown |-> rows,
                       folder |-> NULL, role |-> r.role, pid |-> r.pid]
    /\ UNCHANGED <<location, invoked, userVars, authVars, backendVars,
                   checklistVars, submits, stageVars>>

DocumentsListFailed(r) ==
    /\ BagIn(r, reads) /\ r.kind = "documents"
    /\ reads' = reads (-) SetToBag({r})
    /\ contentRoot' = View("error")
    /\ UNCHANGED <<location, invoked, userVars, authVars, backendVars,
                   checklistVars, submits, stageVars>>

---------------------------------------------------------------------------
(* Documents.js, second definition: renderDocumentsPage(contentRoot, db,    *)
(* storage, userRole, partnerId), with folders and favorites.              *)

\* loadDocuments(folderName): the where-clauses of documentsQuery; wp is DENIED
\* when it returns [] without a query.
loadDocuments(role, pid, folderName) ==
    LET wf == IF folderName # NULL THEN folderName ELSE ANY IN
    IF role = "admin" \/ role = "transferz" THEN [wp |-> ANY, wf |-> wf]
    ELSE IF role = "partner" /\ pid # NULL THEN [wp |-> pid, wf |-> wf]
    ELSE [wp |-> DENIED, wf |-> wf]

\* renderPage(folderName) up to its first backend read: loadDocuments' query,
\* or, when loadDocuments returned [], loadFolders' query.
renderPage(role, pid, folderName) ==
    LET q == loadDocuments(role, pid, folderName) IN
    IF q.wp = DENIED
    THEN reads' = Issue(Read("loadFolders", role, pid, NULL, folderName, ANY, ANY, {}))
    ELSE reads' = Issue(Read("loadDocuments", role, pid, NULL, folderName, q.wp, q.wf, {}))

renderDocumentsFolders(storage, role, pid) ==
    /\ contentRoot' = View("loading")
    /\ renderPage(role, pid, NULL)

\* loadDocuments' getDocs resolved: renderPage goes on to loadFolders.
LoadDocumentsDone(r) ==
    /\ BagIn(r, reads) /\ r.kind = "loadDocuments"
    /\ LET rows == Query(documents, r.wherePartner, r.whereFolder) IN
       reads' = (reads (-) SetToBag({r}))
                (+) SetToBag({Read("loadFolders", r.role, r.pid, NULL, r.folder, ANY, ANY, rows)})
    /\ UNCHANGED <<location, invoked, contentRoot, userVars, authVars, backendVars,
                   checklistVars, submits, stageVars>>

\* loadFolders' getDocs resolved: the page is rendered.  The favorites are
\* listed, and inside a folder the folder's documents.
LoadFoldersDone(r) ==
    /\ BagIn(r, reads) /\ r.kind = "loadFolders"
    /\ reads' = reads (-) SetToBag({r})
    /\ LET favorites == {d \in r.docs : d.isFavorite}
           inFolder == IF r.folder # NULL
                       THEN {d \in r.docs : d.folder = r.folder} ELSE {} IN
       contentRoot' = [view |-> "documentsFolders", returned |-> r.docs,
                       shown |-> favorites \cup inFolder, folder |-> r.folder,
                       role |-> r.role, pid |-> r.pid]
    /\ UNCHANGED <<location, invoked, userVars, authVars, backendVars,
                   checklistVars, submits, stageVars>>

\* Either read rejected: renderPage has no catch, the page area keeps what it
\* showed.
RenderPageFailed(r) ==
    /\ BagIn(r, reads) /\ r.kind \in {"loadDocuments", "loadFolders"}
    /\ reads' = reads (-) SetToBag({r})
    /\ UNCHANGED <<location, invoked, contentRoot, userVars, authVars, backendVars,
                   checklistVars, submits, stageVars>>

defaultFolders == {"Presentations", "Videos"}

\* A click on a folder card of the root view.
FolderClick(folderName) ==
    /\ contentRoot.view = "documentsFolders" /\ contentRoot.folder = NULL
    /\ folderName \in defaultFolders \cup BagToSet(folders)
    /\ Inflight < MaxInflight
    /\ renderPage(contentRoot.role, contentRoot.pid, folderName)
    /\ UNCHANGED <<location, invoked, contentRoot, userVars, authVars, backendVars,
                   checklistVars, submits, stageVars>>

\* The back button of a folder view.
BackClick ==
    /\ contentRoot.view = "documentsFolders" /\ contentRoot.folder # NULL
    /\ Inflight < MaxInflight
    /\ renderPage(contentRoot.role, contentRoot.pid, NULL)
    /\ UNCHANGED <<location, invoked, contentRoot, userVars, authVars, backendVars,
                   checklistVars, submits, stageVars>>

MaxSubmits == 2

SubmitIds == 1..MaxSubmits

\* A submit handler of the Create Folder form in flight: the trimmed name and
\* the await it is at ("getDocs": the existence check, "addDoc": the write).
Submit(id, name, pc) == [id |-> id, name |-> name, pc |-> pc]

\* The Create Folder form is submitted with `value` in its name field: a
\* blank name is refused with an alert, otherwise the existence check goes out.
SubmitFolder(value) ==
    /\ contentRoot.view = "documentsFolders"
    /\ Cardinality(submits) < MaxSubmits
    /\ LET folderName == IF value = "" THEN "" ELSE trim(value) IN
       IF folderName = ""
       THEN submits' = submits
       ELSE \E id \in SubmitIds :
               /\ \A s \in submits : s.id # id
               /\ submits' = submits \cup {Submit(id, folderName, "getDocs")}
    /\ UNCHANGED <<contentRoot, userVars, authVars, backendVars, checklistVars,
                   routeVars, stageVars>>

\* getDocs(foldersCol) resolved: with a folder of that name the handler
\* alerts and returns, otherwise it calls addDoc.
FolderChecked(s) ==
    /\ s \in submits /\ s.pc = "getDocs"
    /\ LET folderExists == BagIn(s.name, folders) IN
       IF folderExists
       THEN submits' = submits \ {s}
       ELSE submits' = (submits \ {s}) \cup {Submit(s.id, s.name, "addDoc")}
    /\ UNCHANGED <<contentRoot, userVars, authVars, backendVars, checklistVars,
                   routeVars, stageVars>>

\* addDoc resolved: the folder document exists, the modal is closed and
\* renderPage(currentFolder) is called.
FolderAdded(s) ==
    /\ s \in submits /\ s.pc = "addDoc"
    /\ Inflight < MaxInflight
    /\ folders' = folders (+) SetToBag({s.name})
    /\ submits' = submits \ {s}
    /\ renderPage(contentRoot.role, contentRoot.pid, contentRoot.folder)
    /\ UNCHANGED <<location, invoked, contentRoot, userVars, authVars, partners,
                   documents, templates, checklistVars, stageVars>>

\* getDocs or addDoc rejected: the catch block alerts.
FolderFailed(s) ==
    /\ s \in submits
    /\ submits' = submits \ {s}
    /\ UNCHANGED <<contentRoot, userVars, authVars, backendVars, checklistVars,
                   routeVars, stageVars>>

\* main.js calls renderDocumentsPage(contentRoot, db, userRole, partnerId):
\* the arguments bind by position to whichever definition is imported.
renderDocumentsPage(arg3, arg4) ==
    IF docsImpl = "list"
    THEN renderDocumentsList(arg3, arg4)
    ELSE renderDocumentsFolders(arg3, arg4, NULL)

---------------------------------------------------------------------------
(* main.js: renderRoute *)

Invoked(renderer, docId) == [renderer |-> renderer, docId |-> docId]

renderRoute(path, role, pid) ==
    LET normalizedPath == normalizePath(path)
        m == partnerDetailMatch(path) IN
    /\ location' = path
    /\ IF m # NULL
       THEN /\ invoked' = Invoked("renderPartnerDetailPage", m)
            /\ renderPartnerDetailPage(m, role)
       ELSE CASE normalizedPath = <<"partners">> ->
                    /\ invoked' = Invoked("renderPartnersPage", NULL)
                    /\ renderPartnersPage(role, pid)
              [] normalizedPath = <<"documents">> ->
                    /\ invoked' = Invoked("renderDocumentsPage", NULL)
                    /\ renderDocumentsPage(role, pid)
              [] normalizedPath = <<"templates">> ->
                    /\ invoked' = Invoked("renderTemplatesPage", NULL)
                    /\ renderTemplatesPage(role, pid)
              [] normalizedPath = <<"settings">> ->
                    /\ invoked' = Invoked("settingsPlaceholder", NULL)
                    /\ contentRoot' = View("settingsPlaceholder")
                    /\ reads' = reads
              [] OTHER ->
                    /\ invoked' = Invoked("notFound", NULL)
                    /\ contentRoot' = View("notFound")
                    /\ reads' = reads

\* A click on a navigation link or a partner row of the layout (pushState),
\* or a popstate: any of the application's own paths.
Navigate(path) ==
    /\ root = "layout"
    /\ Inflight < MaxInflight
    /\ url' = path
    /\ renderRoute(path, userRole, partnerId)
    /\ UNCHANGED <<userVars, authUser, users, callbacks, root, backendVars,
                   checklistVars, submits,
                   stageVars>>

\* handleNavigation's initial route: the URL the application was opened with.
InitialRoute(path) ==
    /\ invoked.renderer = "none"
    /\ path = url
    /\ renderRoute(path, userRole, partnerId)
    /\ UNCHANGED <<userVars, authVars, backendVars,
                   checklistVars, submits, stageVars>>

---------------------------------------------------------------------------
(* main.js: the onAuthStateChanged callback *)

Callback(uid) == [uid |-> uid]

MaxCallbacks == 2

\* userData.role || 'default', 'default' for a missing document.
roleOf(snap) ==
    IF snap.exists /\ snap.role # NULL /\ snap.role # "" THEN snap.role
    ELSE "default"

\* userData.partnerId || null, null for a missing document.
partnerIdOf(snap) ==
    IF snap.exists /\ snap.partnerId # NULL /\ snap.partnerId # ""
    THEN snap.partnerId
    ELSE NULL

\* The auth state changes to user `user` (NULL: signed out) and the callback
\* runs up to its await of the user document, or, signed out, to its end:
\* the root is cleared and the login page rendered.
AuthStateChanged(user) ==
    /\ user # authUser
    /\ authUser' = user
    /\ IF user # NULL
       THEN /\ Cardinality(callbacks) < MaxCallbacks
            /\ Callback(user) \notin callbacks
            /\ callbacks' = callbacks \cup {Callback(user)}
            /\ root' = root
       ELSE /\ callbacks' = callbacks
            /\ root' = "login"
    /\ UNCHANGED <<userVars, users, url, routeVars, contentRoot, backendVars,
                   checklistVars, submits,
                   stageVars>>

\* getDoc of the user document resolved: role and partnerId are derived, the
\* layout is built and handleNavigation renders the initial route.
UserDocLoaded(cb) ==
    /\ cb \in callbacks
    /\ Inflight < MaxInflight
    /\ callbacks' = callbacks \ {cb}
    /\ userRole' = roleOf(users[cb.uid])
    /\ partnerId' = partnerIdOf(users[cb.uid])
    /\ root' = "layout"
    /\ renderRoute(url, userRole', partnerId')
    /\ UNCHANGED <<docsImpl, authUser, users, url, backendVars,
                   checklistVars, submits, stageVars>>

\* getDoc of the user document rejected: the await is in no try block, the
\* callback ends there.
UserDocFailed(cb) ==
    /\ cb \in callbacks
    /\ callbacks' = callbacks \ {cb}
    /\ UNCHANGED <<userVars, authUser, users, root, url, routeVars, contentRoot,
                   backendVars, checklistVars, submits, stageVars>>

ReadStep(r) ==
    \/ PartnersLoaded(r)
    \/ PartnersFailed(r)
    \/ PartnerDetailLoaded(r)
    \/ PartnerDetailFailed(r)
    \/ TemplatesLoaded(r)
    \/ TemplatesFailed(r)
    \/ DocumentsListLoaded(r)
    \/ DocumentsListFailed(r)
    \/ LoadDocumentsDone(r)
    \/ LoadFoldersDone(r)
    \/ RenderPageFailed(r)


---------------------------------------------------------------------------
(* constants/onboardingStages.js *)

DEFAULT_STAGES == <<"Intake", "Testing", "Integration", "Go Live", "Complete">>

NoPromise == 0          \* stagesPromise = null

\* cachedStages = null, a missing document, no list at all: told apart from
\* every list of names.
NoStages == <<NULL>>

MaxLoads == 2

LoadIds == 1..MaxLoads

Load(id, pc) == [id |-> id, pc |-> pc]

\* A write of saveOnboardingStages in flight: the list handed to setDoc, who
\* called ("save" and "reset" are the Settings page's handlers, "api" any
\* other caller) and whether the calling handler's button is still in the page.
Write(list, origin, dom) == [list |-> list, origin |-> origin, dom |-> dom]

\* A renderSettingsPage body in flight: awaiting the user document
\* ("userDoc") or the stages promise of load `load` ("load").
Render(pc, role, load) == [pc |-> pc, role |-> role, load |-> load]

\* No call of the accessor was made yet.
NoCall == [seq |-> 0, op |-> "none", current |-> "", list |-> <<>>,
           outcome |-> "none", value |-> <<>>, next |-> NULL]

\* The record of one more call.
Called(op, current, list, outcome, value, next) ==
    [seq |-> 1 - lastCall.seq, op |-> op, current |-> current, list |-> list,
     outcome |-> outcome, value |-> value, next |-> next]

NoOp == [op |-> "none", index |-> 0, before |-> <<>>, start |-> <<>>]

\* The continuation of `await loadOnboardingStages(db)` in renderSettingsPage
\* and attachStageEventListeners: the editor is rendered over a copy of the
\* list.  `waiting` are the renderSettingsPage bodies that resume.
ShowEditor(waiting, list) ==
    IF waiting = {}
    THEN UNCHANGED <<contentRoot, stages, settingsRole, disabled, lastOp,
                    saveMessage>>
    ELSE /\ contentRoot' = View("settings")
         /\ stages' = list
         /\ settingsRole' \in {w.role : w \in waiting}
         /\ disabled' = {}
         /\ lastOp' = NoOp
         /\ saveMessage' = "none"

Waiting(id) == {w \in BagToSet(renders) : w.pc = "load" /\ w.load = id}

WithoutWaiting(id) ==
    [w \in {x \in BagToSet(renders) : ~(x.pc = "load" /\ x.load = id)} |-> renders[w]]

\* The promise of load l settles with `list`: cachedStages is set, the finally
\* block clears stagesPromise, the awaiting pages resume.
Resolve(l, list) ==
    /\ loads' = loads \ {l}
    /\ cachedStages' = list
    /\ stagesPromise' = NoPromise
    /\ renders' = WithoutWaiting(l.id)
    /\ ShowEditor(Waiting(l.id), list)

LoadOnboardingStagesUncached ==
    IF stagesPromise # NoPromise
    THEN UNCHANGED <<loads, stagesPromise>>
    ELSE \E id \in LoadIds :
            /\ \A l \in loads : l.id # id
            /\ loads' = loads \cup {Load(id, "getDoc")}
            /\ stagesPromise' = id

\* loadOnboardingStages up to its first await: a cache hit or a pending
\* promise is returned as it is, otherwise a new load starts and becomes the
\* pending promise.  The caller awaits the load named by stagesPromise'.
loadOnboardingStages ==
    IF cachedStages # NoStages \/ stagesPromise # NoPromise
    THEN UNCHANGED <<loads, stagesPromise>>
    ELSE \E id \in LoadIds :
            /\ \A l \in loads : l.id # id
            /\ loads' = loads \cup {Load(id, "getDoc")}
            /\ stagesPromise' = id

\* getDoc resolved with a non-empty stages array.
GetDocStages(l) ==
    /\ l \in loads /\ l.pc = "getDoc"
    /\ settingsDoc # NoStages /\ Len(settingsDoc) > 0
    /\ Resolve(l, settingsDoc)
    /\ UNCHANGED <<settingsDoc, writes, timers, edits, userVars, authVars, backendVars,
                   checklistVars, submits,
                   routeVars, lastCall>>

\* getDoc resolved without one: the defaults are written.
GetDocMissing(l) ==
    /\ l \in loads /\ l.pc = "getDoc"
    /\ ~(settingsDoc # NoStages /\ Len(settingsDoc) > 0)
    /\ loads' = (loads \ {l}) \cup {Load(l.id, "setDoc")}
    /\ UNCHANGED <<settingsDoc, cachedStages, stagesPromise, writes, stages,
                   settingsRole, renders, disabled, timers, edits, lastOp,
                   contentRoot, userVars, authVars, backendVars,
                   checklistVars, submits, routeVars, lastCall, saveMessage>>

\* setDoc of the defaults resolved ({merge: true}: the stages field is set).
InitDone(l) ==
    /\ l \in loads /\ l.pc = "setDoc"
    /\ settingsDoc' = DEFAULT_STAGES
    /\ Resolve(l, DEFAULT_STAGES)
    /\ UNCHANGED <<writes, timers, edits, userVars, authVars, backendVars,
                   checklistVars, submits, routeVars, lastCall>>

LoadFailedEmpty(l) ==
    /\ l \in loads
    /\ Resolve(l, <<>>)
    /\ UNCHANGED <<settingsDoc, writes, timers, edits, userVars, authVars,
                   backendVars, checklistVars, submits, routeVars, lastCall>>

\* getDoc or setDoc rejected: the catch block answers with the defaults.
LoadFailed(l) ==
    /\ l \in loads
    /\ Resolve(l, DEFAULT_STAGES)
    /\ UNCHANGED <<settingsDoc, writes, timers, edits, userVars, authVars, backendVars,
                   checklistVars, submits,
                   routeVars, lastCall>>

clearStagesCache ==
    /\ cachedStages' = NoStages
    /\ stagesPromise' = NoPromise

MaxWrites == 1

PageWrites == {w \in BagToSet(writes) : w.origin # "api"}

\* !Array.isArray(stages) || stages.length === 0, NoStages standing for a
\* value that is no array.
rejected(list) == list = NoStages \/ Len(list) = 0

SaveOnboardingStagesUnchecked(list, origin) ==
    writes' = writes (+) SetToBag({Write(list, origin, origin # "api")})

\* saveOnboardingStages up to its await: a write goes out, or, for an empty
\* list or a value that is no array, the call throws and nothing is written.
saveOnboardingStages(list, origin) ==
    IF rejected(list)
    THEN writes' = writes
    ELSE writes' = writes (+) SetToBag({Write(list, origin, origin # "api")})

IndexOfLast(list, element) ==
    LET at == {k \in 1..Len(list) : list[k] = element} IN
    IF at = {} THEN 0 ELSE CHOOSE k \in at : \A j \in at : j <= k

\* Array.prototype.indexOf, positions counted from 1 and 0 for -1.
indexOf(list, element) ==
    LET at == {k \in 1..Len(list) : list[k] = element} IN
    IF at = {} THEN 0 ELSE CHOOSE k \in at : \A j \in at : k <= j

\* getNextStage(currentStage, stages): NoStages for a null or omitted stages
\* argument, NULL for a null, undefined currentStage and for a null result.
getNextStage(currentStage, stagesArg) ==
    LET stagesToUse == IF stagesArg # NoStages THEN stagesArg
                       ELSE IF cachedStages # NoStages THEN cachedStages
                       ELSE DEFAULT_STAGES
        \* stagesToUse[0] || null
        first == IF Len(stagesToUse) > 0 /\ stagesToUse[1] # ""
                 THEN stagesToUse[1] ELSE NULL
        currentIndex == indexOf(stagesToUse, currentStage) IN
    IF currentStage = NULL \/ currentStage = "" THEN first
    ELSE IF currentIndex = 0 THEN first
    ELSE IF currentIndex >= Len(stagesToUse) THEN NULL
    ELSE stagesToUse[currentIndex + 1]

---------------------------------------------------------------------------
(* Callers of the accessor other than the Settings page *)

CallGetNextStage(currentStage, stagesArg) ==
    /\ lastCall' = Called("getNextStage", currentStage, stagesArg, "returned",
                          <<>>, getNextStage(currentStage, stagesArg))
    /\ UNCHANGED <<settingsDoc, cachedStages, stagesPromise, loads, writes,
                   stages, settingsRole, renders, disabled, timers, edits,
                   lastOp, saveMessage, contentRoot, userVars, authVars,
                   backendVars, checklistVars, submits, routeVars>>

\* A call of loadOnboardingStages: the cached list comes back, or a promise.
CallLoad ==
    /\ loadOnboardingStages
    /\ lastCall' = IF cachedStages # NoStages
                   THEN Called("load", "", <<>>, "value", cachedStages, NULL)
                   ELSE Called("load", "", <<>>, "promise", <<>>, NULL)
    /\ UNCHANGED <<settingsDoc, cachedStages, writes, stages, settingsRole,
                   renders, disabled, timers, edits, lastOp, contentRoot,
                   userVars, authVars, backendVars,
                   checklistVars, submits, routeVars, saveMessage>>

\* A call of clearStagesCache; after a save that succeeded it is the
\* caller's way to make later loads read the saved list.
CallClear ==
    /\ clearStagesCache
    /\ lastCall' = IF lastCall.op = "saveSettled" /\ lastCall.outcome = "resolved"
                   THEN Called("clearAfterSave", "", lastCall.list, "returned",
                               <<>>, NULL)
                   ELSE Called("clear", "", <<>>, "returned", <<>>, NULL)
    /\ UNCHANGED <<settingsDoc, loads, writes, stages, settingsRole, renders,
                   disabled, timers, edits, lastOp, contentRoot, userVars,
                   authVars, backendVars,
                   checklistVars, submits, routeVars, saveMessage>>

\* A call of saveOnboardingStages up to its throw or its await.
CallSave(list) ==
    /\ BagCardinality(writes) < MaxWrites
    /\ saveOnboardingStages(list, "api")
    /\ lastCall' = Called("save", "", list,
                          IF writes' = writes THEN "threw" ELSE "pending",
                          <<>>, NULL)
    /\ UNCHANGED <<settingsDoc, cachedStages, stagesPromise, loads, stages,
                   settingsRole, renders, disabled, timers, edits, lastOp,
                   contentRoot, userVars, authVars, backendVars,
                   checklistVars, submits, routeVars,
                   saveMessage>>

\* setDoc resolved: the document is replaced and the cache updated.
ApiWriteDone(w) ==
    /\ BagIn(w, writes) /\ w.origin = "api"
    /\ writes' = writes (-) SetToBag({w})
    /\ settingsDoc' = w.list
    /\ cachedStages' = w.list
    /\ lastCall' = Called("saveSettled", "", w.list, "resolved", <<>>, NULL)
    /\ UNCHANGED <<stagesPromise, loads, stages, settingsRole, renders,
                   disabled, timers, edits, lastOp, contentRoot, userVars,
                   authVars, backendVars,
                   checklistVars, submits, routeVars, saveMessage>>

\* setDoc rejected: the error is rethrown.
ApiWriteFailed(w) ==
    /\ BagIn(w, writes) /\ w.origin = "api"
    /\ writes' = writes (-) SetToBag({w})
    /\ lastCall' = Called("saveSettled", "", w.list, "rejected", <<>>, NULL)
    /\ UNCHANGED <<settingsDoc, cachedStages, stagesPromise, loads, stages,
                   settingsRole, renders, disabled, timers, edits, lastOp,
                   contentRoot, userVars, authVars, backendVars,
                   checklistVars, submits, routeVars,
                   saveMessage>>

---------------------------------------------------------------------------
(* pages/Settings.js *)

\* Stage names of a stored list: a name, the same name with a leading space,
\* a whitespace-only name.
Names == {"A", " A", " "}

\* What the user types into a prompt or an input.
Inputs == {" A", " ", "Intake"}

MaxStages == 3
MaxEdits == 2
MaxRenders == 1
MaxTimers == 1

\* The writes in flight once the page area is replaced: the buttons of the
\* handlers awaiting them are no longer in the page.
Detached(bag) ==
    LET old == BagToSet(bag)
        count(w) == IF w \in old THEN bag[w] ELSE 0 IN
    [w \in {Write(x.list, x.origin, FALSE) : x \in old} |->
        count(w) + count(Write(w.list, w.origin, TRUE))]

PendingPageWrites == BagCardinality([w \in PageWrites |-> writes[w]])

\* renderSettingsPage up to its first await (the user document).  The role
\* argument is not looked at.
renderSettingsPage(role) ==
    /\ contentRoot' = View("loadingSettings")
    /\ renders' = renders (+) SetToBag({Render("userDoc", role, NoPromise)})
    /\ writes' = Detached(writes)
    /\ disabled' = {}
    /\ saveMessage' = "none"

\* The Settings page is opened for the signed-in user.
OpenSettings ==
    /\ BagCardinality(renders) < MaxRenders
    /\ renderSettingsPage(userRole)
    /\ UNCHANGED <<settingsDoc, cachedStages, stagesPromise, loads, stages,
                   settingsRole, timers, edits, lastOp, userVars, authVars, backendVars,
                   checklistVars, submits,
                   routeVars, lastCall>>

\* The re-render scheduled by a successful save or reset.
TimerFires ==
    /\ timers > 0
    /\ timers' = timers - 1
    /\ renderSettingsPage("admin")
    /\ UNCHANGED <<settingsDoc, cachedStages, stagesPromise, loads, stages,
                   settingsRole, edits, lastOp, userVars, authVars, backendVars,
                   checklistVars, submits, routeVars, lastCall>>

\* The user document arrived (or its read failed, which is caught): the page
\* calls loadOnboardingStages and shows the editor at once on a cache hit.
SettingsUserDoc(r) ==
    /\ BagIn(r, renders) /\ r.pc = "userDoc"
    /\ loadOnboardingStages
    /\ IF cachedStages # NoStages
       THEN /\ renders' = renders (-) SetToBag({r})
            /\ ShowEditor({r}, cachedStages)
       ELSE /\ renders' = (renders (-) SetToBag({r}))
                          (+) SetToBag({Render("load", r.role, stagesPromise')})
            /\ UNCHANGED <<contentRoot, stages, settingsRole, disabled, lastOp,
                           saveMessage>>
    /\ UNCHANGED <<settingsDoc, cachedStages, writes, timers, edits, userVars, authVars,
                   backendVars, checklistVars, submits, routeVars, lastCall>>

EditorShown == contentRoot.view = "settings"

Moves == {"moveUp", "moveDown"}

\* The run of moves the editor is in after one more move.
MoveOp(op, index) ==
    [op |-> op, index |-> index, before |-> stages,
     start |-> IF lastOp.op \in Moves THEN lastOp.start ELSE stages]

\* The run of moves ends when the list is changed by anything else.
AfterEdit == IF stages' = stages THEN lastOp ELSE NoOp

MoveUpOverwrite(list, index) ==
    [list EXCEPT ![index] = list[index - 1]]

\* [stages[index], stages[index - 1]] = [stages[index - 1], stages[index]]
\* (positions count from 1 here, from 0 in the code).
moveUp(list, index) ==
    [list EXCEPT ![index] = list[index - 1], ![index - 1] = list[index]]

\* [stages[index], stages[index + 1]] = [stages[index + 1], stages[index]]
moveDown(list, index) ==
    [list EXCEPT ![index] = list[index + 1], ![index + 1] = list[index]]

\* A click on the move-up button of item `index`.
MoveUp(index) ==
    /\ EditorShown /\ edits < MaxEdits
    /\ index \in 1..Len(stages)
    /\ index > 1
    /\ stages' = moveUp(stages, index)
    /\ lastOp' = MoveOp("moveUp", index)
    /\ edits' = edits + 1
    /\ UNCHANGED <<settingsDoc, cachedStages, stagesPromise, loads, writes,
                   settingsRole, renders, disabled, timers, contentRoot,
                   userVars, authVars, backendVars,
                   checklistVars, submits, routeVars, lastCall, saveMessage>>

\* A click on the move-down button of item `index`.
MoveDown(index) ==
    /\ EditorShown /\ edits < MaxEdits
    /\ index \in 1..Len(stages)
    /\ index < Len(stages)
    /\ stages' = moveDown(stages, index)
    /\ lastOp' = MoveOp("moveDown", index)
    /\ edits' = edits + 1
    /\ UNCHANGED <<settingsDoc, cachedStages, stagesPromise, loads, writes,
                   settingsRole, renders, disabled, timers, contentRoot,
                   userVars, authVars, backendVars,
                   checklistVars, submits, routeVars, lastCall, saveMessage>>

\* stages.splice(index, 1)
splice(list, index) ==
    [k \in 1..(Len(list) - 1) |-> IF k < index THEN list[k] ELSE list[k + 1]]

DeleteUnguarded(index) ==
    /\ EditorShown /\ edits < MaxEdits
    /\ index \in 1..Len(stages)
    /\ stages' = splice(stages, index)
    /\ lastOp' = NoOp
    /\ edits' = edits + 1
    /\ UNCHANGED <<settingsDoc, cachedStages, stagesPromise, loads, writes,
                   settingsRole, renders, disabled, timers, contentRoot,
                   userVars, authVars, backendVars,
                   checklistVars, submits, routeVars, lastCall, saveMessage>>

\* A click on a delete button, confirmed.
Delete(index) ==
    /\ EditorShown /\ edits < MaxEdits
    /\ index \in 1..Len(stages)
    /\ Len(stages) > 1
    /\ stages' = splice(stages, index)
    /\ lastOp' = NoOp
    /\ edits' = edits + 1
    /\ UNCHANGED <<settingsDoc, cachedStages, stagesPromise, loads, writes,
                   settingsRole, renders, disabled, timers, contentRoot,
                   userVars, authVars, backendVars,
                   checklistVars, submits, routeVars, lastCall, saveMessage>>

\* The blur handler of input `index` holding `value`.
Blur(index, value) ==
    /\ EditorShown /\ edits < MaxEdits
    /\ index \in 1..Len(stages)
    /\ LET newValue == trim(value) IN
       IF newValue # "" /\ newValue # stages[index]
       THEN stages' = [stages EXCEPT ![index] = newValue]
       ELSE stages' = stages
    /\ lastOp' = AfterEdit
    /\ edits' = IF stages' = stages THEN edits ELSE edits + 1
    /\ UNCHANGED <<settingsDoc, cachedStages, stagesPromise, loads, writes,
                   settingsRole, renders, disabled, timers, contentRoot,
                   userVars, authVars, backendVars,
                   checklistVars, submits, routeVars, lastCall, saveMessage>>

\* The Add Stage button with the prompt answered by `value`.
AddStage(value) ==
    /\ EditorShown /\ edits < MaxEdits
    /\ Len(stages) < MaxStages
    /\ IF value # "" /\ trim(value) # ""
       THEN stages' = Append(stages, trim(value))
       ELSE stages' = stages
    /\ lastOp' = AfterEdit
    /\ edits' = IF stages' = stages THEN edits ELSE edits + 1
    /\ UNCHANGED <<settingsDoc, cachedStages, stagesPromise, loads, writes,
                   settingsRole, renders, disabled, timers, contentRoot,
                   userVars, authVars, backendVars,
                   checklistVars, submits, routeVars, lastCall, saveMessage>>

\* s => !s || !s.trim()
emptyStage(str) == str = "" \/ trim(str) = ""

\* The save handler's loop: the trimmed names, each once, in the order of
\* their first occurrence.
RECURSIVE UniqueFrom(_, _)
UniqueFrom(list, seen) ==
    IF list = <<>> THEN <<>>
    ELSE LET trimmed == trim(Head(list)) IN
         IF trimmed # "" /\ trimmed \notin seen
         THEN <<trimmed>> \o UniqueFrom(Tail(list), seen \cup {trimmed})
         ELSE UniqueFrom(Tail(list), seen)

UniqueStagesKeepLast(list) ==
    LET RECURSIVE Reversed(_)
        Reversed(t) == IF t = <<>> THEN <<>>
                       ELSE Append(Reversed(Tail(t)), Head(t)) IN
    Reversed(UniqueFrom(Reversed(list), {}))

uniqueStages(list) == UniqueFrom(list, {})

SavedListUnchecked(list, confirmed) == list

\* What the save handler hands to saveOnboardingStages; NoStages when it returns
\* before: a stage is empty, or the user declines the removal of duplicates.
savedList(list, confirmed) ==
    IF \E k \in 1..Len(list) : emptyStage(list[k]) THEN NoStages
    ELSE IF Len(uniqueStages(list)) # Len(list)
         THEN IF confirmed THEN uniqueStages(list) ELSE NoStages
         ELSE list

\* A click on Save Changes; `confirmed` answers the duplicates dialog.  An
\* empty list makes saveOnboardingStages throw, and the finally block enables
\* the button again.
Save(confirmed) ==
    /\ EditorShown /\ "save" \notin disabled
    /\ PendingPageWrites + timers < MaxTimers
    /\ LET list == savedList(stages, confirmed) IN
       IF list = NoStages
       THEN UNCHANGED <<stages, writes, disabled>>
       ELSE /\ stages' = list
            /\ saveOnboardingStages(list, "save")
            /\ disabled' = IF Len(list) = 0 THEN disabled
                           ELSE disabled \cup {"save"}
    /\ saveMessage' = IF \/ \E k \in 1..Len(stages) : emptyStage(stages[k])
                         \/ Len(stages) = 0
                      THEN "error" ELSE saveMessage
    /\ lastOp' = AfterEdit
    /\ UNCHANGED <<settingsDoc, cachedStages, stagesPromise, loads,
                   settingsRole, renders, timers, edits, contentRoot, userVars, authVars,
                   backendVars, checklistVars, submits, routeVars, lastCall>>

ReorderedStages == <<"Intake", "Integration", "Testing", "Go Live", "Complete">>

\* The literal of the reset handler.
defaultStages == <<"Intake", "Testing", "Integration", "Go Live", "Complete">>

\* A click on Reset to Default; `confirmed` answers the dialog.
Reset(confirmed) ==
    /\ EditorShown /\ "reset" \notin disabled
    /\ PendingPageWrites + timers < MaxTimers
    /\ IF confirmed
       THEN /\ saveOnboardingStages(defaultStages, "reset")
            /\ disabled' = disabled \cup {"reset"}
       ELSE UNCHANGED <<writes, disabled>>
    /\ UNCHANGED <<settingsDoc, cachedStages, stagesPromise, loads, stages,
                   settingsRole, renders, timers, edits, lastOp, contentRoot,
                   userVars, authVars, backendVars,
                   checklistVars, submits, routeVars, lastCall,
                   saveMessage>>

\* The finally block of the handler awaiting w enables its button again.
Reenabled(w) == IF w.dom THEN disabled \ {w.origin} ELSE disabled

\* The page's write resolved: saveOnboardingStages sets the cache, the
\* handler clears it and schedules the re-render.
PageWriteDone(w) ==
    /\ BagIn(w, writes) /\ w.origin # "api"
    /\ writes' = writes (-) SetToBag({w})
    /\ settingsDoc' = w.list
    /\ clearStagesCache
    /\ timers' = timers + 1
    /\ disabled' = Reenabled(w)
    /\ saveMessage' = IF w.dom THEN "success" ELSE saveMessage
    /\ UNCHANGED <<loads, stages, settingsRole, renders, edits, lastOp,
                   contentRoot, userVars, authVars, backendVars,
                   checklistVars, submits, routeVars, lastCall>>

PageWriteFailedReloads(w) ==
    /\ BagIn(w, writes) /\ w.origin # "api"
    /\ writes' = writes (-) SetToBag({w})
    /\ disabled' = Reenabled(w)
    /\ saveMessage' = IF w.dom THEN "error" ELSE saveMessage
    /\ timers' = timers + 1
    /\ UNCHANGED <<settingsDoc, cachedStages, stagesPromise, loads, stages,
                   settingsRole, renders, edits, lastOp, contentRoot,
                   userVars, authVars, backendVars,
                   checklistVars, submits, routeVars, lastCall>>

\* The page's write rejected: the handler shows the error.
PageWriteFailed(w) ==
    /\ BagIn(w, writes) /\ w.origin # "api"
    /\ writes' = writes (-) SetToBag({w})
    /\ disabled' = Reenabled(w)
    /\ saveMessage' = IF w.dom THEN "error" ELSE saveMessage
    /\ UNCHANGED <<settingsDoc, cachedStages, stagesPromise, loads, stages,
                   settingsRole, renders, timers, edits, lastOp, contentRoot,
                   userVars, authVars, backendVars,
                   checklistVars, submits, routeVars, lastCall>>

LoadStep(l) ==
    \/ GetDocStages(l)
    \/ GetDocMissing(l)
    \/ InitDone(l)
    \/ LoadFailed(l)

---------------------------------------------------------------------------
(* Partner Detail: the CS guide checklist *)

MaxUpdates == 2

\* An updateDoc in flight: the toggled index, the array handed to updateDoc
\* and event.target.checked at the time of the change event.
Update(index, status, target) ==
    [index |-> index, status |-> status, target |-> target]

\* No update has settled yet.
NoUpdate == [seq |-> 0, index |-> 0, outcome |-> "none", target |-> FALSE,
             anyRejected |-> FALSE]

\* The record of one more settled update; anyRejected tells whether any
\* update of the page was rejected so far.
Settled(u, outcome) ==
    [seq |-> 1 - lastUpdate.seq, index |-> u.index, outcome |-> outcome,
     target |-> u.target,
     anyRejected |-> lastUpdate.anyRejected \/ outcome = "rejected"]

\* csGuideStatus.map((item, idx) => idx === index
\*     ? { ...item, completed: event.target.checked } : item)
updatedStatus(status, index, target) ==
    [k \in 1..Len(status) |->
        IF k = index THEN Item(status[k].label, target) ELSE status[k]]

\* The user clicks the box at `index`: the browser flips it, the change
\* handler runs up to its await of updateDoc.
Toggle(index) ==
    /\ contentRoot.view = "partnerDetail"
    /\ index \in 1..Len(checked)
    /\ Len(updates) < MaxUpdates
    /\ checked' = [checked EXCEPT ![index] = ~checked[index]]
    /\ updates' = Append(updates,
                         Update(index,
                                updatedStatus(csGuideStatus, index, checked'[index]),
                                checked'[index]))
    /\ UNCHANGED <<csStored, csGuideStatus, lastUpdate, submits, contentRoot,
                   userVars, authVars, backendVars, routeVars, stageVars>>

\* The oldest updateDoc resolved (the writes of one client to one document
\* are applied in the order they were issued): the array replaces the stored
\* one and becomes the local csGuideStatus.
UpdateDone ==
    /\ Len(updates) > 0
    /\ LET u == Head(updates) IN
       /\ csStored' = u.status
       /\ csGuideStatus' = u.status
       /\ lastUpdate' = Settled(u, "resolved")
    /\ updates' = Tail(updates)
    /\ UNCHANGED <<checked, submits, contentRoot, userVars, authVars,
                   backendVars, routeVars, stageVars>>

\* The oldest updateDoc rejected: event.target.checked = !event.target.checked
UpdateFailed ==
    /\ Len(updates) > 0
    /\ LET u == Head(updates) IN
       /\ checked' = [checked EXCEPT ![u.index] = ~checked[u.index]]
       /\ lastUpdate' = Settled(u, "rejected")
    /\ updates' = Tail(updates)
    /\ UNCHANGED <<csStored, csGuideStatus, submits, contentRoot, userVars,
                   authVars, backendVars, routeVars, stageVars>>

---------------------------------------------------------------------------
(* Initial states *)

\* Nothing of the accessor or of the Settings page has run.
StagesFresh ==
    /\ cachedStages = NoStages
    /\ stagesPromise = NoPromise
    /\ loads = {}
    /\ writes = EmptyBag
    /\ stages = <<>>
    /\ settingsRole = NULL
    /\ renders = EmptyBag
    /\ disabled = {}
    /\ timers = 0
    /\ edits = 0
    /\ lastOp = NoOp
    /\ saveMessage = "none"
    /\ lastCall = NoCall

StagesIdle ==
    /\ settingsDoc = NoStages
    /\ StagesFresh

\* The layout was built for user u1, whose document gave userRole and
\* partnerId.
SignedIn ==
    /\ authUser = "u1"
    /\ users = [u \in Uids |-> IF u = "u1" THEN UserDoc(userRole, partnerId)
                                         ELSE NoUserDoc]
    /\ callbacks = {}
    /\ root = "layout"

RouteIdle ==
    /\ location = <<>>
    /\ invoked = Invoked("none", NULL)
    /\ contentRoot = View("blank")
    /\ reads = EmptyBag

\* No Partner Detail checklist and no Create Folder form is in use.
FormsIdle ==
    /\ csStored = <<>>
    /\ csGuideStatus = <<>>
    /\ checked = <<>>
    /\ updates = <<>>
    /\ lastUpdate = NoUpdate
    /\ submits = {}

\* Contents of the collections: k1 belongs to p1; k2, t1 and d1 may be absent
\* or belong to either partner; d2 is a favorite of p2 filed under Videos.
PartnersContents ==
    {{Row("k1", "p1", NULL, FALSE)} \cup x :
        x \in {{}} \cup {{Row("k2", s, NULL, FALSE)} : s \in RowPartnerIds}}

TemplatesContents ==
    {{}} \cup {{Row("t1", s, NULL, FALSE)} : s \in RowPartnerIds}

DocumentsContents ==
    {{Row("d2", "p2", "Videos", TRUE)} \cup {Row("d1", s, f, v)} :
        s \in RowPartnerIds, f \in {NULL, "Videos"}, v \in BOOLEAN}

\* The role-scoped pages over every content of the collections.
InitScope ==
    /\ userRole \in Roles
    /\ partnerId \in UserPartnerIds
    /\ docsImpl \in {"list", "folders"}
    /\ partners \in PartnersContents
    /\ documents \in DocumentsContents
    /\ templates \in TemplatesContents
    /\ folders = EmptyBag
    /\ RouteIdle
    /\ FormsIdle
    /\ SignedIn
    /\ url = <<"">>
    /\ StagesIdle

NextScope ==
    \/ \E path \in LinkPaths : Navigate(path)
    \/ \E folderName \in defaultFolders : FolderClick(folderName)
    \/ BackClick
    \/ \E r \in BagToSet(reads) : ReadStep(r)

SpecScope == InitScope /\ [][NextScope]_vars

\* The dispatcher over every path.
InitRoute ==
    /\ userRole \in Roles
    /\ partnerId \in {NULL, "p1"}
    /\ docsImpl \in {"list", "folders"}
    /\ partners = {Row("k1", "p1", NULL, FALSE), Row("k2", "p2", NULL, FALSE)}
    /\ documents = {Row("d1", "p1", NULL, TRUE), Row("d2", "p2", "Videos", TRUE)}
    /\ templates = {Row("t1", "p1", NULL, FALSE)}
    /\ folders = EmptyBag
    /\ RouteIdle
    /\ FormsIdle
    /\ SignedIn
    /\ url \in Paths
    /\ StagesIdle

NextRoute ==
    \/ \E path \in Paths : InitialRoute(path)
    \/ \E path \in LinkPaths : Navigate(path)
    \/ \E r \in BagToSet(reads) : ReadStep(r)

SpecRoute == InitRoute /\ [][NextRoute]_vars


\* The documents a user may have: none, or one with or without its role and
\* partnerId fields.
UserDocs ==
    {NoUserDoc} \cup {UserDoc(r, q) : r \in {NULL, "admin", "partner"},
                                     q \in {NULL, "p1"}}

\* The application is opened at any of its paths; the auth state is not yet
\* known.
InitAuth ==
    /\ userRole = "default"
    /\ partnerId = NULL
    /\ docsImpl \in {"list", "folders"}
    /\ partners = {Row("k1", "p1", NULL, FALSE), Row("k2", "p2", NULL, FALSE)}
    /\ documents = {Row("d1", "p1", NULL, TRUE), Row("d2", "p2", "Videos", TRUE)}
    /\ templates = {Row("t1", "p1", NULL, FALSE)}
    /\ folders = EmptyBag
    /\ RouteIdle
    /\ FormsIdle
    /\ StagesIdle
    /\ authUser = "unknown"
    /\ users \in [Uids -> UserDocs]
    /\ callbacks = {}
    /\ root = "blank"
    /\ url \in {<<"">>, <<"documents">>, <<"partners", "k1">>}

NextAuth ==
    \/ \E user \in Uids \cup {NULL} : AuthStateChanged(user)
    \/ \E cb \in callbacks : UserDocLoaded(cb)
    \/ \E cb \in callbacks : UserDocFailed(cb)
    \/ \E path \in LinkPaths : Navigate(path)
    \/ \E r \in BagToSet(reads) : ReadStep(r)

SpecAuth == InitAuth /\ [][NextAuth]_vars

---------------------------------------------------------------------------
(* Claims about the role-scoped pages (SpecScope) *)

ListViews == {"partners", "documents", "documentsFolders", "templates"}

NoAccess ==
    /\ userRole \notin {"admin", "transferz"}
    /\ ~(userRole = "partner" /\ partnerId # NULL)

ScopedKinds == {"partners", "templates", "documents", "loadDocuments"}

\* C1: for a partner-role user with scope P, every row returned to or shown
\* by the Partners, Documents and Templates pages has partnerId P.
C1_PartnerSeesOnlyOwnRows ==
    (userRole = "partner" /\ partnerId # NULL /\ contentRoot.view \in ListViews)
        => \A row \in contentRoot.returned \cup contentRoot.shown :
               row.partnerId = partnerId

\* C2: a partner-role user is shown a partner's details only when that
\* partner's partnerId is the user's scope.
C2_DetailOnlyInScope ==
    (userRole = "partner" /\ contentRoot.view = "partnerDetail")
        => \A row \in contentRoot.shown : row.partnerId = partnerId

\* C3: for an admin or transferz user no query of the three pages restricts
\* partnerId, and the page receives every row of the collection (for
\* Documents inside a folder, every row of that folder).
C3_AdminSeesAllRows ==
    userRole \in {"admin", "transferz"} =>
        /\ \A r \in BagToSet(reads) :
               r.kind \in ScopedKinds => r.wherePartner = ANY
        /\ contentRoot.view = "partners" => contentRoot.returned = partners
        /\ contentRoot.view = "templates" => contentRoot.returned = templates
        /\ contentRoot.view \in {"documents", "documentsFolders"} =>
               contentRoot.returned =
                   IF contentRoot.folder = NULL THEN documents
                   ELSE {d \in documents : d.folder = contentRoot.folder}

\* C4: a user that is neither admin nor transferz nor a partner with a
\* partnerId causes no query on partners, documents or templates from the
\* three pages and is shown no row of them.
C4_NoAccessNoQuery ==
    NoAccess =>
        /\ \A r \in BagToSet(reads) : r.kind \notin ScopedKinds
        /\ contentRoot.view \in ListViews =>
               contentRoot.returned \cup contentRoot.shown = {}

\* C16: no page stays in its loading placeholder after its read has failed:
\* while the placeholder is shown, a read of the page is still in flight.
C16_NoLoadingAfterFailedRead ==
    contentRoot.view = "loading" => reads # EmptyBag

---------------------------------------------------------------------------
(* Claims about the dispatcher (SpecRoute) *)

IsPartnerDetailPath(path) ==
    Len(path) = 2 /\ path[1] = "partners" /\ path[2] # ""

\* C8: each dispatched path has exactly the outcome the route table names:
\* the Partners page for '', '/', '/home' and '/partners', the Documents and
\* Templates pages for their paths, the Partner Detail page with the second
\* segment as document id for '/partners/<segment>', and the 404 view with
\* no read issued for every other path except '/settings'.
C8_RouteDispatch ==
    invoked.renderer # "none" =>
        /\ location \in {<<>>, <<"">>, <<"home">>, <<"partners">>}
               => invoked = Invoked("renderPartnersPage", NULL)
        /\ location = <<"documents">>
               => invoked = Invoked("renderDocumentsPage", NULL)
        /\ location = <<"templates">>
               => invoked = Invoked("renderTemplatesPage", NULL)
        /\ IsPartnerDetailPath(location)
               => invoked = Invoked("renderPartnerDetailPage", location[2])
        /\ ( /\ location \notin {<<>>, <<"">>, <<"home">>, <<"partners">>,
                                 <<"documents">>, <<"templates">>, <<"settings">>}
             /\ ~IsPartnerDetailPath(location) )
               => /\ invoked = Invoked("notFound", NULL)
                  /\ contentRoot.view = "notFound"
                  /\ reads = EmptyBag

\* A three-segment path under /partners was dispatched and got the 404 view.
C8_Witness404 ==
    /\ location = <<"partners", "k1", "k1">>
    /\ invoked = Invoked("notFound", NULL)

\* C9: dispatching '/settings' invokes the Settings page renderer.
C9_SettingsRouteRendersSettingsPage ==
    (invoked.renderer # "none" /\ location = <<"settings">>)
        => invoked.renderer = "renderSettingsPage"


---------------------------------------------------------------------------
(* The Settings page (SpecStages) and the accessor (SpecCache) *)

\* Stored stage lists: no document, or up to MaxDocLen names.
MaxDocLen == 2

StoredLists == {NoStages} \cup UNION {[1..n -> Names] : n \in 0..MaxDocLen}

\* The Settings page over every stored list and every role.
InitStages ==
    /\ userRole \in Roles
    /\ partnerId = NULL
    /\ docsImpl = "list"
    /\ partners = {}
    /\ documents = {}
    /\ templates = {}
    /\ folders = EmptyBag
    /\ RouteIdle
    /\ FormsIdle
    /\ SignedIn
    /\ url = <<"settings">>
    /\ settingsDoc \in StoredLists
    /\ StagesFresh

NextStages ==
    \/ OpenSettings
    \/ TimerFires
    \/ \E r \in BagToSet(renders) : SettingsUserDoc(r)
    \/ \E l \in loads : LoadStep(l)
    \/ \E index \in 1..Len(stages) : MoveUp(index)
    \/ \E index \in 1..Len(stages) : MoveDown(index)
    \/ \E index \in 1..Len(stages) : Delete(index)
    \/ \E index \in 1..Len(stages), value \in Inputs : Blur(index, value)
    \/ \E value \in Inputs : AddStage(value)
    \/ \E confirmed \in BOOLEAN : Save(confirmed)
    \/ \E confirmed \in BOOLEAN : Reset(confirmed)
    \/ \E w \in BagToSet(writes) : PageWriteDone(w)
    \/ \E w \in BagToSet(writes) : PageWriteFailed(w)

SpecStages == InitStages /\ [][NextStages]_vars

\* The lists other callers hand to saveOnboardingStages.
ApiLists == {NoStages, <<>>, <<"A">>, <<"A", "B">>}

\* The accessor under every interleaving of calls from its importers.
InitCache ==
    /\ userRole = "admin"
    /\ partnerId = NULL
    /\ docsImpl = "list"
    /\ partners = {}
    /\ documents = {}
    /\ templates = {}
    /\ folders = EmptyBag
    /\ RouteIdle
    /\ FormsIdle
    /\ SignedIn
    /\ url = <<"partners">>
    /\ settingsDoc \in {NoStages, <<>>, <<"B">>}
    /\ StagesFresh

NextCache ==
    \/ CallLoad
    \/ CallClear
    \/ \E list \in ApiLists : CallSave(list)
    \/ \E w \in BagToSet(writes) : ApiWriteDone(w)
    \/ \E w \in BagToSet(writes) : ApiWriteFailed(w)
    \/ \E l \in loads : LoadStep(l)

SpecCache == InitCache /\ [][NextCache]_vars

\* saveOnboardingStages under both kinds of callers: the Settings page's Save
\* and Reset handlers of an admin, and any other importer.
InitSave ==
    /\ userRole = "admin"
    /\ partnerId = NULL
    /\ docsImpl = "list"
    /\ partners = {}
    /\ documents = {}
    /\ templates = {}
    /\ folders = EmptyBag
    /\ RouteIdle
    /\ FormsIdle
    /\ SignedIn
    /\ url = <<"settings">>
    /\ settingsDoc \in {NoStages, <<"A">>, <<"B", "A">>}
    /\ StagesFresh

NextSave ==
    \/ OpenSettings
    \/ TimerFires
    \/ \E r \in BagToSet(renders) : SettingsUserDoc(r)
    \/ \E l \in loads : LoadStep(l)
    \/ \E confirmed \in BOOLEAN : Save(confirmed)
    \/ \E confirmed \in BOOLEAN : Reset(confirmed)
    \/ \E w \in PageWrites : PageWriteDone(w)
    \/ \E w \in PageWrites : PageWriteFailed(w)
    \/ \E list \in ApiLists : CallSave(list)
    \/ \E w \in BagToSet(writes) : ApiWriteDone(w)
    \/ \E w \in BagToSet(writes) : ApiWriteFailed(w)

SpecSave == InitSave /\ [][NextSave]_vars

\* The boxes the user clicks are the first MaxIndex ones.
MaxIndex == 2

\* The checklists a partner document holds: no csGuideStatus field (or an
\* empty one), or two items in any state.
StoredStatuses ==
    {<<>>} \cup {<<Item("Form sent", a), Item("Created", b)>> : a, b \in BOOLEAN}

\* The application is opened on the detail page of partner k1 by an admin.
InitChecklist ==
    /\ userRole = "admin"
    /\ partnerId = NULL
    /\ docsImpl = "list"
    /\ partners = {Row("k1", "p1", NULL, FALSE)}
    /\ documents = {}
    /\ templates = {}
    /\ folders = EmptyBag
    /\ RouteIdle
    /\ SignedIn
    /\ url = <<"partners", "k1">>
    /\ settingsDoc = NoStages
    /\ StagesFresh
    /\ csStored \in StoredStatuses
    /\ csGuideStatus = <<>>
    /\ checked = <<>>
    /\ updates = <<>>
    /\ lastUpdate = NoUpdate
    /\ submits = {}

NextChecklist ==
    \/ \E path \in Paths : InitialRoute(path)
    \/ \E r \in BagToSet(reads) : PartnerDetailLoaded(r)
    \/ \E r \in BagToSet(reads) : PartnerDetailFailed(r)
    \/ \E index \in 1..MaxIndex : Toggle(index)
    \/ UpdateDone
    \/ UpdateFailed

SpecChecklist == InitChecklist /\ [][NextChecklist]_vars

\* What is typed into the folder name field.
FolderInputs == {"A", " A", "B", " ", ""}

\* The application is opened on the Documents page (the definition with
\* folders); the folders collection is empty or holds one folder.
InitFolders ==
    /\ userRole = "admin"
    /\ partnerId \in {NULL, "transferz"}
    /\ docsImpl = "folders"
    /\ partners = {}
    /\ documents = {Row("d1", "p1", NULL, TRUE)}
    /\ templates = {}
    /\ folders \in {EmptyBag, SetToBag({"A"})}
    /\ RouteIdle
    /\ FormsIdle
    /\ SignedIn
    /\ url = <<"documents">>
    /\ settingsDoc = NoStages
    /\ StagesFresh

NextFolders ==
    \/ \E path \in Paths : InitialRoute(path)
    \/ \E r \in BagToSet(reads) : LoadDocumentsDone(r)
    \/ \E r \in BagToSet(reads) : LoadFoldersDone(r)
    \/ \E r \in BagToSet(reads) : RenderPageFailed(r)
    \/ \E value \in FolderInputs : SubmitFolder(value)
    \/ \E s \in submits : FolderChecked(s)
    \/ \E s \in submits : FolderAdded(s)
    \/ \E s \in submits : FolderFailed(s)

SpecFolders == InitFolders /\ [][NextFolders]_vars

---------------------------------------------------------------------------
(* Claims about the auth callback (SpecAuth) *)

\* C11: every callback for a signed-in user ends with the layout built and
\* the current path dispatched with the role and partnerId derived from that
\* user's document ('default' and null for a missing document or field); a
\* change to signed-out renders the login page and dispatches no route.
C11_AuthChangeDispatches ==
    [][ /\ \A cb \in callbacks :
              cb \notin callbacks' =>
                  /\ root' = "layout"
                  /\ userRole' = roleOf(users[cb.uid])
                  /\ partnerId' = partnerIdOf(users[cb.uid])
                  /\ location' = url
                  /\ invoked'.renderer # "none"
        /\ (authUser' = NULL /\ authUser # NULL) =>
              /\ root' = "login"
              /\ UNCHANGED <<location, invoked, reads>> ]_vars

---------------------------------------------------------------------------
(* getNextStage over every argument (SpecNextStage) *)

MaxListLen == 3

\* Stage names a list handed to getNextStage may hold, the empty string
\* among them.
StageNames == {"", "A", "B"}

StagesArgs == {NoStages} \cup UNION {[1..n -> StageNames] : n \in 0..MaxListLen}

\* A name ("C" is in no list), the empty string, null.
CurrentStages == {NULL, "", "A", "B", "C"}

InitNextStage ==
    /\ userRole = "admin"
    /\ partnerId = NULL
    /\ docsImpl = "list"
    /\ partners = {}
    /\ documents = {}
    /\ templates = {}
    /\ folders = EmptyBag
    /\ RouteIdle
    /\ FormsIdle
    /\ SignedIn
    /\ url = <<"partners">>
    /\ settingsDoc = NoStages
    /\ cachedStages \in {NoStages, <<"B", "A">>}
    /\ stagesPromise = NoPromise
    /\ loads = {}
    /\ writes = EmptyBag
    /\ stages = <<>>
    /\ settingsRole = NULL
    /\ renders = EmptyBag
    /\ disabled = {}
    /\ timers = 0
    /\ edits = 0
    /\ lastOp = NoOp
    /\ saveMessage = "none"
    /\ lastCall = NoCall

NextNextStage ==
    \E currentStage \in CurrentStages, stagesArg \in StagesArgs :
        CallGetNextStage(currentStage, stagesArg)

SpecNextStage == InitNextStage /\ [][NextNextStage]_vars

\* The list getNextStage worked on in the last call.
UsedList ==
    IF lastCall.list # NoStages THEN lastCall.list
    ELSE IF cachedStages # NoStages THEN cachedStages
    ELSE DEFAULT_STAGES

Occurrences == {k \in 1..Len(UsedList) : UsedList[k] = lastCall.current}

FirstOccurrence == CHOOSE k \in Occurrences : \A j \in Occurrences : k <= j

NoCurrent == lastCall.current \in {NULL, ""} \/ Occurrences = {}

\* C13 as stated: the entry after the first occurrence of current, null when
\* that occurrence is the last entry, the first entry of the list when
\* current is empty or no member; the list is the argument, else the cached
\* list, else the defaults.
C13_NextStageAsStated ==
    lastCall.op = "getNextStage" =>
        IF NoCurrent
        THEN Len(UsedList) > 0 => lastCall.next = UsedList[1]
        ELSE IF FirstOccurrence = Len(UsedList)
             THEN lastCall.next = NULL
             ELSE lastCall.next = UsedList[FirstOccurrence + 1]

\* C13, amended: as stated, but when current is empty or no member the
\* result is null if the list is empty or its first entry is the empty
\* string.
C13_NextStage ==
    lastCall.op = "getNextStage" =>
        IF NoCurrent
        THEN lastCall.next = IF Len(UsedList) = 0 \/ UsedList[1] = ""
                             THEN NULL ELSE UsedList[1]
        ELSE IF FirstOccurrence = Len(UsedList)
             THEN lastCall.next = NULL
             ELSE lastCall.next = UsedList[FirstOccurrence + 1]

\* The current stage occurs first and last in the list: the entry after its
\* first occurrence was returned.
C13_WitnessRepeatedStage ==
    /\ lastCall.op = "getNextStage"
    /\ lastCall.list = <<"A", "B", "A">>
    /\ lastCall.current = "A"
    /\ lastCall.next = "B"

---------------------------------------------------------------------------
(* Claims about the stage editor (SpecStages) *)

NoDuplicates(list) ==
    \A j, k \in 1..Len(list) : j # k => list[j] # list[k]

SaveWrites == {w \in BagToSet(writes) : w.origin = "save"}

\* C5: every list the Save action hands to the backend is non-empty, has no
\* blank entry and has no two equal entries, whatever edits preceded it.
C5_SavedListWellFormed ==
    \A w \in SaveWrites :
        /\ Len(w.list) > 0
        /\ \A k \in 1..Len(w.list) : w.list[k] # "" /\ trim(w.list[k]) # ""
        /\ NoDuplicates(w.list)

\* A stored list with two names that are equal once trimmed was saved
\* unedited: one name is written.
C5_WitnessDeduplicated ==
    /\ settingsDoc = <<"A", " A">>
    /\ edits = 0
    /\ \E w \in SaveWrites : w.list = <<"A">>

Count(list, name) == Cardinality({k \in 1..Len(list) : list[k] = name})

SameMultiset(s, t) ==
    /\ Len(s) = Len(t)
    /\ \A k \in 1..Len(s) : Count(s, s[k]) = Count(t, s[k])

\* C6: a move-up at a position after the first, or a move-down at a position
\* before the last, exchanges the entries of the two adjacent positions and
\* leaves every other position as it was; after a run of moves the list has
\* the length and the multiset of entries it had before the run.
C6_MoveSwapsAdjacent ==
    lastOp.op \in Moves =>
        LET i == lastOp.index
            j == IF lastOp.op = "moveUp" THEN i - 1 ELSE i + 1
            before == lastOp.before IN
        /\ Len(stages) = Len(before)
        /\ {i, j} \subseteq 1..Len(stages)
        /\ stages[i] = before[j]
        /\ stages[j] = before[i]
        /\ \A k \in 1..Len(stages) : k \notin {i, j} => stages[k] = before[k]
        /\ SameMultiset(stages, lastOp.start)

\* A run of at least two moves ended with a move-up that changed the list.
C6_WitnessMoveRun ==
    /\ lastOp.op = "moveUp"
    /\ lastOp.start # lastOp.before
    /\ stages # lastOp.before
    /\ stages # lastOp.start

\* Two entries of the list are equal once trimmed.
TrimmedDuplicates(list) ==
    \E j, k \in 1..Len(list) : j # k /\ trim(list[j]) = trim(list[k])

FirstPosition(list, name) ==
    CHOOSE j \in 1..Len(list) :
        /\ trim(list[j]) = name
        /\ \A i \in 1..(j - 1) : trim(list[i]) # name

\* result holds each distinct trimmed name of list exactly once, in the
\* order of the names' first occurrences in list.
DistinctTrimmedInOrder(result, list) ==
    /\ {result[k] : k \in 1..Len(result)} = {trim(list[j]) : j \in 1..Len(list)}
    /\ NoDuplicates(result)
    /\ \A a, b \in 1..Len(result) :
          a < b => FirstPosition(list, result[a]) < FirstPosition(list, result[b])

\* The writes a click on Save Changes sends in this step.
NewSaveWrites ==
    {w \in BagToSet(writes') :
        w.origin = "save" /\ w.dom /\ CopiesIn(w, writes') > CopiesIn(w, writes)}

\* C21 as stated: the list Save writes holds each distinct trimmed name of
\* the edited list exactly once, in the order of first occurrence, and is the
\* edited list when the edited list has no duplicates.
C21_DeduplicationAsStated ==
    [][ \A w \in NewSaveWrites :
            /\ DistinctTrimmedInOrder(w.list, stages)
            /\ ~TrimmedDuplicates(stages) => w.list = stages ]_vars

\* C21: when two entries of the edited list are equal once trimmed, the list
\* Save writes holds each distinct trimmed name exactly once, in the order of
\* first occurrence; otherwise it is the edited list as it is, untrimmed
\* names included.
C21_Deduplication ==
    [][ \A w \in NewSaveWrites :
            /\ stages' = w.list
            /\ IF TrimmedDuplicates(stages)
               THEN DistinctTrimmedInOrder(w.list, stages)
               ELSE w.list = stages ]_vars

\* A stored list of two names that are equal once trimmed got a third name
\* and was saved: the repeated name is written once, trimmed, before the
\* added name.
C21_WitnessFirstOccurrenceKept ==
    /\ settingsDoc = <<" A", "A">>
    /\ edits = 1
    /\ stages = <<"A", "Intake">>
    /\ \E w \in SaveWrites : w.list = <<"A", "Intake">>

\* The positions at which two lists of one length differ.
Differing(s, t) == {k \in 1..Len(s) : s[k] # t[k]}

\* C22: the list of a shown editor has at least one entry; no edit (add,
\* rename, delete, move) and no de-duplication of Save leaves it empty, so a
\* delete on a one-entry list changes nothing, and no rename puts a blank name
\* into the list.
C22_EditorListNeverEmpty ==
    [][ /\ EditorShown' => Len(stages') >= 1
        /\ (EditorShown /\ stages' # stages /\ contentRoot' = contentRoot)
              => Len(stages') >= 1
        /\ ( /\ edits' # edits
             /\ Len(stages') = Len(stages)
             /\ Cardinality(Differing(stages, stages')) = 1 )
              => \A k \in Differing(stages, stages') :
                     stages'[k] # "" /\ trim(stages'[k]) # "" ]_vars

\* A delete left one entry of a stored list of two: the next delete is
\* refused.
C22_WitnessOneEntryLeft ==
    /\ EditorShown
    /\ settingsDoc = <<"A", " ">>
    /\ stages = <<"A">>
    /\ edits = 1

\* C15: a confirmed Reset whose write succeeds leaves the five defaults, in
\* the order Intake, Testing, Integration, Go Live, Complete and equal to the
\* loader's DEFAULT_STAGES, as the stored list, whatever the editor's local
\* list is; a declined Reset writes nothing and leaves the cache and the
\* local list as they were.
C15_ResetStoresDefaults ==
    [][ /\ \A w \in BagToSet(writes) :
              ( /\ w.origin = "reset"
                /\ CopiesIn(w, writes') < CopiesIn(w, writes)
                /\ timers' = timers + 1 )
              => /\ settingsDoc' =
                        <<"Intake", "Testing", "Integration", "Go Live", "Complete">>
                 /\ settingsDoc' = DEFAULT_STAGES
                 /\ stages' = stages
        /\ \A w \in BagToSet(writes') :
              (w.origin = "reset" /\ CopiesIn(w, writes') > CopiesIn(w, writes))
              => /\ w.list = DEFAULT_STAGES
                 /\ UNCHANGED <<settingsDoc, cachedStages, stages>> ]_vars

\* A stored list was edited in the editor and, unsaved, replaced by the
\* defaults through Reset.
C15_WitnessResetOverEdits ==
    /\ settingsDoc = DEFAULT_STAGES
    /\ stages = <<"A", "Intake">>
    /\ saveMessage = "success"
    /\ timers = 1

\* C10: a write of the Settings page's Save or Reset is in flight only when
\* the signed-in user's role is admin.
C10_OnlyAdminWrites ==
    PageWrites # {} => userRole = "admin"

---------------------------------------------------------------------------
(* Claims about the accessor (SpecCache) *)

\* C14: a call of saveOnboardingStages with a value that is no array or with
\* an empty array throws, sends no write and leaves the cached list and the
\* stored list as they were.
C14_InvalidSaveThrows ==
    [][ ( /\ lastCall' # lastCall
          /\ lastCall'.op = "save"
          /\ (lastCall'.list = NoStages \/ lastCall'.list = <<>>) )
        => /\ lastCall'.outcome = "threw"
           /\ UNCHANGED <<writes, cachedStages, settingsDoc>> ]_vars

\* An empty array was refused while a list was cached: the list is still
\* cached.
C14_WitnessEmptyRefused ==
    /\ lastCall.op = "save"
    /\ lastCall.list = <<>>
    /\ lastCall.outcome = "threw"
    /\ cachedStages = <<"A", "B">>
    /\ writes = EmptyBag

\* The settings document holds a non-empty stages array.
HoldsStages(document) == document # NoStages /\ Len(document) > 0

\* The load l settles in this step.
Settles(l) == \A k \in loads' : k.id # l.id

\* C12: every load settles by resolving to a non-empty list: the backend's
\* list or (when the read failed) the five defaults when the document holds a
\* non-empty array, the five defaults otherwise; a list kept in the cache is
\* never empty.
C12_LoadResolvesNonEmpty ==
    [][ /\ \A l \in loads :
              Settles(l) =>
                  /\ cachedStages' # NoStages
                  /\ Len(cachedStages') > 0
                  /\ IF l.pc = "getDoc" /\ HoldsStages(settingsDoc)
                     THEN cachedStages' \in {settingsDoc, DEFAULT_STAGES}
                     ELSE cachedStages' = DEFAULT_STAGES
        /\ cachedStages' # NoStages => Len(cachedStages') > 0 ]_vars

\* The read of a document holding a list failed: the defaults were the result.
C12_WitnessDefaultsOnFailure ==
    /\ settingsDoc = <<"B">>
    /\ cachedStages = DEFAULT_STAGES
    /\ loads = {}

\* C17: a call of loadOnboardingStages made while a list is cached returns
\* that list and starts no read and no write of the backend; the cache and the
\* stored list stay as they were.
C17_CacheHitReadsNothing ==
    [][ ( /\ lastCall' # lastCall
          /\ lastCall'.op = "load"
          /\ cachedStages # NoStages )
        => /\ lastCall'.outcome = "value"
           /\ lastCall'.value = cachedStages
           /\ UNCHANGED <<loads, writes, settingsDoc, cachedStages>> ]_vars

\* A load answered from the cache after a save, with nothing in flight.
C17_WitnessCacheHit ==
    /\ lastCall.op = "load"
    /\ lastCall.outcome = "value"
    /\ lastCall.value = <<"A", "B">>
    /\ settingsDoc = <<"A", "B">>
    /\ loads = {}
    /\ writes = EmptyBag

\* C18: the first load called after a save of S succeeded and the cache was
\* cleared resolves to S: it is not answered with another list out of the
\* cache, and the stored list it reads is S.
C18_LoadAfterSaveReadsSaved ==
    [][ ( /\ lastCall.op = "clearAfterSave"
          /\ lastCall' # lastCall
          /\ lastCall'.op = "load" )
        => IF lastCall'.outcome = "value"
           THEN lastCall'.value = lastCall.list
           ELSE settingsDoc = lastCall.list ]_vars

\* C19: the initialising write of a load changes the stored list only when
\* the document holds no non-empty array: it never replaces a list that a save
\* has stored.
C19_InitWriteKeepsSavedList ==
    [][ \A l \in loads :
            ( /\ l.pc = "setDoc"
              /\ Settles(l)
              /\ settingsDoc' # settingsDoc )
            => ~HoldsStages(settingsDoc) ]_vars

C7_AtMostOneReadInFlight ==
    Cardinality({l \in loads : l.pc = "getDoc"}) <= 1

\* C26: while the auth state is signed-out the root holds no layout: the
\* login page stays, also when the user-document read of an earlier
\* signed-in change completes.
C26_LayoutOnlyWhileSignedIn ==
    authUser = NULL => root # "layout"

---------------------------------------------------------------------------
(* Claims about the Create Folder form (SpecFolders) *)

\* C27: no two documents of the folders collection have the same name.
C27_FolderNamesUnique ==
    \A name \in BagToSet(folders) : CopiesIn(name, folders) = 1

---------------------------------------------------------------------------
(* Claims about overlapping navigations (SpecRoute) *)

\* What a renderer can leave in the page area once its reads have settled.
ViewsOf(renderer) ==
    CASE renderer = "renderPartnersPage" -> {"accessDenied", "partners", "error"}
      [] renderer = "renderPartnerDetailPage" ->
            {"partnerNotFound", "partnerDetail", "error"}
      [] renderer = "renderTemplatesPage" -> {"accessDenied", "templates", "error"}
      [] renderer = "renderDocumentsPage" ->
            {"accessDenied", "documents", "documentsFolders", "error", "loading"}
      [] renderer = "settingsPlaceholder" -> {"settingsPlaceholder"}
      [] renderer = "notFound" -> {"notFound"}
      [] OTHER -> {"blank"}

\* C25: once every backend read has settled, the page area shows the content
\* of the renderer of the path dispatched last (for a partner's detail page:
\* of that partner).
C25_LastNavigationWins ==
    reads = EmptyBag =>
        /\ contentRoot.view \in ViewsOf(invoked.renderer)
        /\ contentRoot.view = "partnerDetail" =>
              \A row \in contentRoot.shown : row.id = invoked.docId

---------------------------------------------------------------------------
(* Claims about the Partner Detail checklist (SpecChecklist) *)

\* C23: a checklist update that the backend rejected leaves the box in the
\* state it had before the click and the local csGuideStatus as it was; one
\* that succeeded changes the local csGuideStatus in nothing but the
\* completed flag of the toggled index (same length, labels and order).
C23_ChecklistUpdateOutcome ==
    [][ lastUpdate' # lastUpdate =>
          LET i == lastUpdate'.index IN
          IF lastUpdate'.outcome = "rejected"
          THEN /\ checked'[i] = ~lastUpdate'.target
               /\ csGuideStatus' = csGuideStatus
          ELSE /\ Len(csGuideStatus') = Len(csGuideStatus)
               /\ \A k \in 1..Len(csGuideStatus) :
                     /\ csGuideStatus'[k].label = csGuideStatus[k].label
                     /\ k # i => csGuideStatus'[k] = csGuideStatus[k]
               /\ csGuideStatus'[i].completed = lastUpdate'.target ]_vars

\* C24: once every update has completed, none of them rejected, the stored
\* csGuideStatus has at every index the completed flag its box shows.
C24_StoredMatchesBoxes ==
    ( /\ contentRoot.view = "partnerDetail"
      /\ updates = <<>>
      /\ ~lastUpdate.anyRejected )
    => Boxes(initialCsGuideStatus(csStored)) = checked

=============================================================================
